---- MODULE Spec2Model ----
(***************************************************************************)
(* A model of the Excel AI assistant's action-exchange protocol:           *)
(*   - ChatInterface (sendMessage, handleApplyActions, clearChat, the      *)
(*     Discard button, the save-messages effect), in its tool-calling      *)
(*     variant and in its text-only variant;                               *)
(*   - LLMService.chat with the provider adapters;                         *)
(*   - ExcelService.executeOperations against the spreadsheet host;        *)
(*   - StorageService (API key, provider, message history).                *)
(*                                                                         *)
(* Texts are sequences of tokens, so that the regular expression           *)
(* /```excel-json\s*([\s\S]*?)```/, JSON.parse, String.replace and         *)
(* String.trim are computed as the code computes them.                     *)
(***************************************************************************)
EXTENDS Integers, Sequences, FiniteSets, TLC

(***************************************************************************)
(* Bounds of the model.                                                    *)
(***************************************************************************)
\* sendMessage calls that pass the API-key check, per behaviour
MaxSends == 2
\* Apply clicks per behaviour
MaxApplies == 1
\* length of the message lists the storage specification saves
MaxSaved == 52
\* rows and formula cells of the used ranges the context specification reads
MaxRows == 25
MaxFormulas == 22
\* length of the operation lists the executor specification draws
MaxOps == 3
\* length of the operation lists the round-trip specification encodes
MaxBlockOps == 2
\* length of the sortRange batches the sort specification applies
MaxSortOps == 2

(***************************************************************************)
(* Sequence helpers.                                                       *)
(***************************************************************************)
Range(s) == {s[i] : i \in 1..Len(s)}

\* Array.prototype.slice(-n): the last n elements
SliceLast(s, n) == IF Len(s) <= n THEN s ELSE SubSeq(s, Len(s) - n + 1, Len(s))

RECURSIVE FlatMap(_)
\* Array.prototype.flatMap over already-mapped lists
FlatMap(ss) == IF ss = <<>> THEN <<>> ELSE Head(ss) \o FlatMap(Tail(ss))

(***************************************************************************)
(* Operations.  An operation is a record; a field the JSON object does not *)
(* carry is "none".  value is the text of a string value, as the sequence  *)
(* of its characters ("w" a run of other characters, "bt" one backtick,    *)
(* "F" three backticks), and <<>> when the object carries none.            *)
(***************************************************************************)
MkOp(a, addr, f) == [action |-> a, address |-> addr, format |-> f, value |-> <<>>]

\* { "action": "setCellValue", "address": "A1", "value": v }
MkValueOp(v) == [MkOp("setCellValue", "A1", "none") EXCEPT !.value = v]

opSetA1 == MkOp("setCellValue", "A1", "none")
opFormulaB1 == MkOp("setFormula", "B1", "none")
opBoldA1 == MkOp("format", "A1", "bold")
\* a malformed address
opBadAddr == MkOp("setCellValue", "A1:", "none")
\* an action outside the executor's switch
opUnknown == MkOp("mergeCells", "A1", "none")
\* a format operation without its format object: op.format.bold is a TypeError
opNoFormat == MkOp("format", "B1", "none")

OpPool == {opSetA1, opFormulaB1, opBoldA1, opBadAddr, opUnknown, opNoFormat}

\* The values a field of a sortRange operation is given: "undefined" is a
\* field the object does not carry, the others are the JSON values null,
\* false, true, 0, 1, 2.
JsValues == {"undefined", "null", "false", "true", "0", "1", "2"}

\* the values that || passes over
Falsy(v) == v \in {"undefined", "null", "false", "0"}

\* { "action": "sortRange", "address": addr, "key": k, "ascending": asc }
SortOp(addr, k, asc) ==
    [action |-> "sortRange", address |-> addr, format |-> "none", value |-> <<>>,
     key |-> k, ascending |-> asc]

ValidAddresses == {"A1", "B1"}

(***************************************************************************)
(* Text tokens.                                                            *)
(*   "w"    a word of prose                                                *)
(*   "sp"   white space                                                    *)
(*   "F"    three backticks                                                *)
(*   "tag"  the characters excel-json                                      *)
(*   "bt"   one backtick                                                   *)
(*   "j..." a JSON payload, looked up in JsonValue                         *)
(*   "{ops" "ops}" "," "val" "q}" "}" and "h..." the pieces of the JSON    *)
(*          text of an operations object, see OpJson                       *)
(*   "m..." the fixed messages of the chat interface                       *)
(***************************************************************************)
JsonTokens == {"jA", "jB", "jEmpty", "jNoOps", "jNull", "jBad"}

\* what JSON.parse gives for a text that is not JSON: a SyntaxError
NotJson == [ok |-> FALSE, isNull |-> FALSE, hasOps |-> FALSE, operations |-> <<>>]

\* a parsed object, with its operations field if it has one
JsonObject(has, ops) == [ok |-> TRUE, isNull |-> FALSE, hasOps |-> has, operations |-> ops]

\* JSON.parse of one payload
JsonValue(tok) ==
    CASE tok = "jA"     -> JsonObject(TRUE, <<opSetA1>>)
      [] tok = "jB"     -> JsonObject(TRUE, <<opFormulaB1, opBadAddr, opBoldA1>>)
      [] tok = "jEmpty" -> JsonObject(TRUE, <<>>)
      [] tok = "jNoOps" -> JsonObject(FALSE, <<>>)
      [] tok = "jNull"  -> [ok |-> TRUE, isNull |-> TRUE, hasOps |-> FALSE,
                            operations |-> <<>>]
      [] OTHER          -> NotJson

RECURSIVE TrimStart(_)
TrimStart(s) == IF s # <<>> /\ Head(s) = "sp" THEN TrimStart(Tail(s)) ELSE s

RECURSIVE TrimEnd(_)
TrimEnd(s) ==
    IF s # <<>> /\ s[Len(s)] = "sp" THEN TrimEnd(SubSeq(s, 1, Len(s) - 1)) ELSE s

\* String.prototype.trim
Trim(s) == TrimEnd(TrimStart(s))

(***************************************************************************)
(* The JSON text of an operations object, piece by piece:                  *)
(*   "{ops"  {"operations":[          "ops}"  ]}          ","  ,           *)
(*   "h..."  {"action":...,"address":...  with the format, if any          *)
(*   "}"     }         "val"  ,"value":"         "q}"  "}                  *)
(* Between "val" and "q}" stand the characters of the string value: JSON   *)
(* leaves a backtick as it is.                                             *)
(***************************************************************************)
ValueChars == {"w", "bt", "F"}

\* the JSON text of an operation up to its value
OpHead(op) ==
    LET o == [op EXCEPT !.value = <<>>]
    IN CASE o = opSetA1     -> "hSetA1"
         [] o = opFormulaB1 -> "hFormulaB1"
         [] o = opBoldA1    -> "hBoldA1"
         [] o = opBadAddr   -> "hBadAddr"
         [] o = opUnknown   -> "hUnknown"
         [] o = opNoFormat  -> "hNoFormat"

\* the head tokens
HeadTokens == {"hSetA1", "hFormulaB1", "hBoldA1", "hBadAddr", "hUnknown", "hNoFormat"}

\* the operation that a head token spells
OpOfHead(h) ==
    CASE h = "hSetA1"     -> opSetA1
      [] h = "hFormulaB1" -> opFormulaB1
      [] h = "hBoldA1"    -> opBoldA1
      [] h = "hBadAddr"   -> opBadAddr
      [] h = "hUnknown"   -> opUnknown
      [] h = "hNoFormat"  -> opNoFormat

\* JSON.stringify of one operation
OpJson(op) ==
    IF op.value = <<>> THEN <<OpHead(op), "}">>
    ELSE <<OpHead(op), "val">> \o op.value \o <<"q}">>

RECURSIVE OpsJson(_)
\* the elements of JSON.stringify of a list of operations, comma separated
OpsJson(ops) ==
    IF ops = <<>> THEN <<>>
    ELSE IF Len(ops) = 1 THEN OpJson(ops[1])
    ELSE OpJson(ops[1]) \o <<",">> \o OpsJson(Tail(ops))

\* JSON.stringify({ operations: ops })
Stringify(ops) == <<"{ops">> \o OpsJson(ops) \o <<"ops}">>

\* where the operation object at the head of t ends: at its "}", at the
\* first "q}" after its "val", or nowhere (0)
OpEnd(t) ==
    IF Len(t) < 2 \/ t[1] \notin HeadTokens THEN 0
    ELSE IF t[2] = "}" THEN 2
    ELSE IF t[2] = "val" /\ \E i \in 3..Len(t) : t[i] = "q}"
    THEN CHOOSE i \in 3..Len(t) :
            t[i] = "q}" /\ \A j \in 3..(i - 1) : t[j] # "q}"
    ELSE 0

\* t starts with the text of one operation object
StartsWithOp(t) ==
    /\ OpEnd(t) # 0
    /\ t[2] = "val" => /\ OpEnd(t) > 3
                       /\ \A j \in 3..(OpEnd(t) - 1) : t[j] \in ValueChars

\* the operation that the object at the head of t spells
OpAt(t) == [OpOfHead(t[1]) EXCEPT !.value = SubSeq(t, 3, OpEnd(t) - 1)]

RECURSIVE ParseOps(_, _)
\* JSON.parse reading the elements of the operations array and its closing
\* ]} from t, acc being the elements read so far
ParseOps(t, acc) ==
    IF ~StartsWithOp(t) THEN NotJson
    ELSE IF SubSeq(t, OpEnd(t) + 1, Len(t)) = <<"ops}">>
    THEN JsonObject(TRUE, Append(acc, OpAt(t)))
    ELSE IF OpEnd(t) + 2 <= Len(t) /\ t[OpEnd(t) + 1] = ","
    THEN ParseOps(SubSeq(t, OpEnd(t) + 2, Len(t)), Append(acc, OpAt(t)))
    ELSE NotJson

\* JSON.parse of a trimmed text
JsonParseTrimmed(t) ==
    IF Len(t) = 1 /\ t[1] \in JsonTokens THEN JsonValue(t[1])
    ELSE IF t = <<"{ops", "ops}">> THEN JsonObject(TRUE, <<>>)
    ELSE IF t # <<>> /\ t[1] = "{ops" THEN ParseOps(Tail(t), <<>>)
    ELSE NotJson

\* JSON.parse of a text: white space around one well-formed payload or
\* around the text of an operations object; anything else is a SyntaxError
JsonParse(s) == JsonParseTrimmed(Trim(s))

\* positions where ```excel-json starts
OpenAt(s) == {i \in 1..(Len(s) - 1) : s[i] = "F" /\ s[i + 1] = "tag"}

Min(S) == CHOOSE x \in S : \A y \in S : x <= y

\* The span [from, to] matched by /```excel-json[\s\S]*?```/ (first match, lazy),
\* from = 0 when the text has no match.
FenceMatch(s) ==
    IF OpenAt(s) = {} THEN [from |-> 0, to |-> 0]
    ELSE LET i == Min(OpenAt(s))
             closes == {j \in (i + 2)..Len(s) : s[j] = "F"}
         IN IF closes = {} THEN [from |-> 0, to |-> 0]
            ELSE [from |-> i, to |-> Min(closes)]

\* the text holds an excel-json fenced block
HasFence(s) == FenceMatch(s).from # 0

\* match[1] of /```excel-json\s*([\s\S]*?)```/: \s* takes the leading white space
FenceCapture(s) ==
    LET m == FenceMatch(s)
    IN TrimStart(SubSeq(s, m.from + 2, m.to - 1))

\* the null that extractExcelActions returns
NoActions == [threw |-> FALSE, ok |-> FALSE, hasOps |-> FALSE, operations |-> <<>>]

\* extractExcelActions with its try/catch left out: the SyntaxError escapes
extractExcelActionsNoCatch(content) ==
    IF HasFence(content) /\ FenceCapture(content) # <<>>
    THEN LET v == JsonParse(FenceCapture(content))
         IN IF ~v.ok THEN [NoActions EXCEPT !.threw = TRUE]
            ELSE IF v.isNull THEN NoActions
            ELSE [threw |-> FALSE, ok |-> TRUE, hasOps |-> v.hasOps,
                  operations |-> v.operations]
    ELSE NoActions

\* extractExcelActions: the parsed object (ok), or null
extractExcelActions(content) ==
    IF HasFence(content) /\ FenceCapture(content) # <<>>
    THEN LET v == JsonParse(FenceCapture(content))
         IN IF ~v.ok \/ v.isNull THEN NoActions
            ELSE [threw |-> FALSE, ok |-> TRUE, hasOps |-> v.hasOps,
                  operations |-> v.operations]
    ELSE NoActions

\* content.replace(/```excel-json[\s\S]*?```/, ''): the first match only
StripFence(s) ==
    LET m == FenceMatch(s)
    IN IF m.from = 0 THEN s
       ELSE SubSeq(s, 1, m.from - 1) \o SubSeq(s, m.to + 1, Len(s))

(***************************************************************************)
(* ExcelService.executeOperations.                                         *)
(*                                                                         *)
(* The host's proxy objects batch their commands: a call the host cannot   *)
(* carry out (a malformed address) either throws where it is made or is    *)
(* queued and makes context.sync() reject.  Both outcomes are modelled     *)
(* (failMode); the code awaits context.sync() after the loop, outside the  *)
(* per-operation try.                                                      *)
(***************************************************************************)
FailModes == {"throws", "deferred"}

\* sortFields with ascending: op.ascending === true
sortFieldsOnlyTrue(op) ==
    [key |-> IF Falsy(op.key) THEN "0" ELSE op.key,
     ascending |-> op.ascending = "true"]

\* const sortFields = [{ key: op.key || 0, ascending: op.ascending !== false }]
sortFields(op) ==
    [key |-> IF Falsy(op.key) THEN "0" ELSE op.key,
     ascending |-> op.ascending # "false"]

\* sortRange.sort.apply(sortFields, ...): the call the host is given
SortApply(op) ==
    [action |-> "sort.apply", address |-> op.address,
     key |-> sortFields(op).key, ascending |-> sortFields(op).ascending]

\* the body of the switch with a default case that writes to the range
ExecOpDefaultWrites(op, failMode) ==
    LET bad == op.address \notin ValidAddresses
        rangeThrows == bad /\ failMode = "throws"
        badCmd == <<[op |-> op, ok |-> FALSE]>>
    IN CASE op.action \in {"setCellValue", "setFormula"} ->
              IF rangeThrows THEN [threw |-> TRUE, cmds |-> <<>>]
              ELSE [threw |-> FALSE, cmds |-> <<[op |-> op, ok |-> ~bad]>>]
         [] op.action = "format" ->
              IF rangeThrows THEN [threw |-> TRUE, cmds |-> <<>>]
              ELSE IF op.format = "none"
                   THEN [threw |-> TRUE, cmds |-> IF bad THEN badCmd ELSE <<>>]
                   ELSE [threw |-> FALSE, cmds |-> <<[op |-> op, ok |-> ~bad]>>]
         [] OTHER -> [threw |-> FALSE, cmds |-> <<[op |-> op, ok |-> ~bad]>>]

\* The body of the switch for one operation: whether it threw, and the host
\* commands it queued ([op, ok]: ok = FALSE is a command the host rejects).
ExecOp(op, failMode) ==
    LET bad == op.address \notin ValidAddresses
        \* sheet.getRange(op.address)
        rangeThrows == bad /\ failMode = "throws"
        badCmd == <<[op |-> op, ok |-> FALSE]>>
    IN CASE op.action \in {"setCellValue", "setFormula"} ->
              IF rangeThrows THEN [threw |-> TRUE, cmds |-> <<>>]
              ELSE [threw |-> FALSE, cmds |-> <<[op |-> op, ok |-> ~bad]>>]
         [] op.action = "format" ->
              IF rangeThrows THEN [threw |-> TRUE, cmds |-> <<>>]
              ELSE IF op.format = "none"
                   \* op.format.bold on undefined
                   THEN [threw |-> TRUE, cmds |-> IF bad THEN badCmd ELSE <<>>]
                   ELSE [threw |-> FALSE, cmds |-> <<[op |-> op, ok |-> ~bad]>>]
         [] op.action = "sortRange" ->
              IF rangeThrows THEN [threw |-> TRUE, cmds |-> <<>>]
              ELSE [threw |-> FALSE, cmds |-> <<[op |-> SortApply(op), ok |-> ~bad]>>]
         \* no case of the switch matches
         [] OTHER -> [threw |-> FALSE, cmds |-> <<>>]

\* try { switch ... } catch (e) { console.error(...) } without the catch
TryCatchMissing(acc, op, r) ==
    [attempted |-> Append(acc.attempted, op),
     queue |-> acc.queue \o r.cmds,
     caught |-> acc.caught,
     escaped |-> r.threw]

\* try { switch ... } catch (e) { console.error(...) }: the exception of one
\* operation is logged and the loop goes on
TryCatch(acc, op, r) ==
    [attempted |-> Append(acc.attempted, op),
     queue |-> acc.queue \o r.cmds,
     caught |-> IF r.threw THEN Append(acc.caught, Len(acc.attempted) + 1)
                ELSE acc.caught,
     escaped |-> FALSE]

RECURSIVE ExecLoopBackwards(_, _, _)
\* a loop that takes the operations from the last to the first
ExecLoopBackwards(ops, failMode, acc) ==
    IF ops = <<>> \/ acc.escaped THEN acc
    ELSE ExecLoopBackwards(SubSeq(ops, 1, Len(ops) - 1), failMode,
                           TryCatch(acc, ops[Len(ops)], ExecOp(ops[Len(ops)], failMode)))

RECURSIVE ExecLoop(_, _, _)
\* for (const op of operations) { ... }
ExecLoop(ops, failMode, acc) ==
    IF ops = <<>> \/ acc.escaped THEN acc
    ELSE ExecLoop(Tail(ops), failMode, TryCatch(acc, Head(ops), ExecOp(Head(ops), failMode)))

EmptyRun == [attempted |-> <<>>, queue |-> <<>>, caught |-> <<>>, escaped |-> FALSE]

\* the callback of Excel.run up to its await context.sync()
RunBatch(ops, failMode) == ExecLoop(ops, failMode, EmptyRun)

RECURSIVE Committed(_)
\* context.sync(): the host carries the queued commands out in order and stops
\* at the first one it rejects (no rollback of the ones before it)
Committed(queue) ==
    IF queue = <<>> \/ ~Head(queue).ok THEN <<>>
    ELSE <<Head(queue).op>> \o Committed(Tail(queue))

\* context.sync() rejects
SyncRejects(queue) == \E i \in 1..Len(queue) : ~queue[i].ok

(***************************************************************************)
(* StorageService.                                                         *)
(***************************************************************************)
Keys == {"k1"}

\* btoa / atob on the keys of the model ("k1", one blank, the empty string)
Btoa(k) == IF k = "k1" THEN "azE=" ELSE IF k = " " THEN "IA==" ELSE ""
Atob(e) == IF e = "azE=" THEN "k1" ELSE IF e = "IA==" THEN " " ELSE ""

\* the strings saveApiKey is called with: "uni" stands for a key with a
\* character outside Latin-1, on which btoa throws
KeyInputs == {"", " ", "k1", "uni"}

\* saveApiKey: what is stored afterwards (btoa's exception is caught and
\* logged, and nothing is written)
saveApiKey(stored, k) == IF k = "uni" THEN stored ELSE Btoa(k)

\* clearApiKey: localStorage.removeItem
clearApiKey == "absent"

\* hasApiKey as getItem(...) !== null
hasApiKeyNotNull(stored) == stored # "absent"

\* localStorage.getItem is null ("absent") for a key never set or removed
hasApiKey(stored) == stored # "absent" /\ stored # ""

getApiKey(stored) == IF stored = "absent" \/ stored = "" THEN "null" ELSE Atob(stored)

\* the cap of saveMessages
MessageCap == 50

\* JSON.stringify of one message: a Date timestamp becomes its ISO string
\* (and JSON.parse gives that string back); the other fields are strings
ToJson(m) ==
    IF "timestamp" \in DOMAIN m
    THEN [m EXCEPT !.timestamp = <<"string", @[2]>>]
    ELSE m

\* JSON.stringify of a list of messages
JsonStringify(msgs) == [i \in 1..Len(msgs) |-> ToJson(msgs[i])]

\* saveMessages keeping the first 50 messages instead of the last 50
saveMessagesFirst(msgs) ==
    JsonStringify(IF Len(msgs) <= MessageCap THEN msgs ELSE SubSeq(msgs, 1, MessageCap))

\* what saveMessages leaves in localStorage
saveMessages(msgs) == JsonStringify(SliceLast(msgs, MessageCap))

\* getMessages: JSON.parse of the stored text, [] when nothing is stored
getMessages(stored) == stored

\* what clearMessages leaves: the item is removed
clearMessages == <<>>

\* the "Save messages when they change" effect
SaveEffect(msgs, stored) == IF Len(msgs) > 0 THEN saveMessages(msgs) ELSE stored

(***************************************************************************)
(* LLMService.                                                             *)
(***************************************************************************)
Providers == {"openrouter", "gemini", "huggingface"}

ToolName == "execute_excel_operations"

\* chat() up to its network call, with the credential check left out
ChatStartUnchecked(apiKey, prov) ==
    IF prov \in Providers THEN [threw |-> "none", fetches |-> 1]
    ELSE [threw |-> "unknownProvider", fetches |-> 0]

\* chat() up to its network call: the credential check, then the dispatch on
\* the provider, each adapter starting with one fetch
ChatStart(apiKey, prov) ==
    IF apiKey = "null" \/ apiKey = "" THEN [threw |-> "noKey", fetches |-> 0]
    ELSE IF prov \in Providers THEN [threw |-> "none", fetches |-> 1]
    ELSE [threw |-> "unknownProvider", fetches |-> 0]

\* The bodies the providers answer with (HTTP 200): the text and the tool
\* calls, each with its arguments as the provider sends them.
RawTexts ==
    { <<"w">>,
      <<"w", "sp", "F", "tag", "sp", "jA", "sp", "F">>,
      <<"F", "tag", "jA", "F">>,
      <<"w", "F", "tag", "jBad", "F">>,
      <<"F", "tag", "jNoOps", "F", "sp">>,
      <<"F", "tag", "jA", "F", "w", "F", "tag", "jEmpty", "F">>,
      <<>> }

RawToolCalls ==
    { <<>>,
      <<[name |-> ToolName, arguments |-> "jB"]>>,
      <<[name |-> ToolName, arguments |-> "jBad"]>>,
      <<[name |-> ToolName, arguments |-> "jNull"]>>,
      <<[name |-> "other_tool", arguments |-> "jA"]>> }

RawResponses == [content : RawTexts, toolCalls : RawToolCalls]

\* The form in which a provider delivers the arguments of a tool call: a
\* JSON-encoded string (the OpenAI wire format) or a structured object
\* (Gemini's functionCall.args).  The token of a tool call names the content;
\* the form tells how it arrives.
ArgForms == {"string", "object"}

\* the form each provider's API documents
NativeForm(prov) == IF prov = "gemini" THEN "object" ELSE "string"

\* arguments delivered as an object are never unparseable
GeminiResponses == {r \in RawResponses : \A i \in 1..Len(r.toolCalls) :
                        JsonValue(r.toolCalls[i].arguments).ok}

\* the bodies the application specification draws: prose, a fenced block,
\* native tool calls, both, and tool calls whose arguments do not parse
TurnResponses ==
    {r \in RawResponses :
        \/ /\ r.content \in {<<"w">>, <<"w", "sp", "F", "tag", "sp", "jA", "sp", "F">>}
           /\ r.toolCalls \in {<<>>, <<[name |-> ToolName, arguments |-> "jB"]>>}
        \/ /\ r.content = <<"w">>
           /\ r.toolCalls = <<[name |-> ToolName, arguments |-> "jBad"]>>}

\* The text convention of the system prompt: a block fenced with
\* ```excel-json holding the JSON text of { "operations": [...] }
Encode(ops) == <<"F", "tag", "sp">> \o Stringify(ops) \o <<"sp", "F">>

\* operations with and without a string value; the values hold no backtick,
\* single backticks, or three backticks in a row
BlockOps ==
    {opSetA1, opFormulaB1, opBoldA1,
     MkValueOp(<<"w">>), MkValueOp(<<"bt">>), MkValueOp(<<"w", "bt", "bt", "w">>),
     MkValueOp(<<"F">>), MkValueOp(<<"w", "F", "w">>)}

BlockLists == UNION {[1..n -> BlockOps] : n \in 0..MaxBlockOps}

\* the bodies whose text is one encoded operation list
EncodedResponses == [content : {Encode(ops) : ops \in BlockLists}, toolCalls : {<<>>}]

ResponsesOf(form) ==
    IF form = "object" THEN GeminiResponses \cup EncodedResponses
    ELSE RawResponses \cup EncodedResponses

\* JSON.parse(tc.function.arguments): of the string, or of the object
\* turned into a string ("[object Object]", a SyntaxError; "null" for null)
openRouterArguments(form, tok) ==
    IF form = "string" THEN JsonParse(<<tok>>)
    ELSE IF JsonValue(tok).isNull THEN JsonValue(tok)
    ELSE NotJson

\* callOpenRouter after response.ok: JSON.parse of every tool call's arguments
callOpenRouter(form, raw) ==
    IF \E i \in 1..Len(raw.toolCalls) :
          ~openRouterArguments(form, raw.toolCalls[i].arguments).ok
    THEN [threw |-> TRUE, text |-> <<>>, toolCalls |-> <<>>]
    ELSE [threw |-> FALSE, text |-> raw.content,
          toolCalls |-> [i \in 1..Len(raw.toolCalls) |->
                           [name |-> raw.toolCalls[i].name,
                            arguments |-> openRouterArguments(form,
                                              raw.toolCalls[i].arguments)]]]

\* part.functionCall.args as it arrives: the object, or a string, which has
\* no operations property
geminiArguments(form, tok) ==
    IF form = "object" THEN JsonValue(tok) ELSE JsonObject(FALSE, <<>>)

\* callGemini after response.ok: functionCall.args is taken as it is
callGemini(form, raw) ==
    [threw |-> FALSE, text |-> raw.content,
     toolCalls |-> [i \in 1..Len(raw.toolCalls) |->
                      [name |-> raw.toolCalls[i].name,
                       arguments |-> geminiArguments(form, raw.toolCalls[i].arguments)]]]

\* callHuggingFace after response.ok: generated text, trimmed; no tools
callHuggingFace(raw) ==
    [threw |-> FALSE, text |-> Trim(raw.content), toolCalls |-> <<>>]

\* the LLMResponse of chat(), tool-calling variant
Adapter(prov, form, raw) ==
    CASE prov = "openrouter" -> callOpenRouter(form, raw)
      [] prov = "gemini" -> callGemini(form, raw)
      [] OTHER -> callHuggingFace(raw)

\* the string of chat(), text-only variant: no tools are offered
AdapterText(prov, raw) ==
    [threw |-> FALSE,
     text |-> IF prov = "huggingface" THEN Trim(raw.content) ELSE raw.content,
     toolCalls |-> <<>>]

(***************************************************************************)
(* ChatInterface.sendMessage: normalizing a response.                      *)
(***************************************************************************)
\* toolCalls.flatMap(tc => tc.name === ... ? tc.arguments.operations || [] : [])
ToolOperations(toolCalls) ==
    FlatMap([i \in 1..Len(toolCalls) |->
               IF toolCalls[i].name = ToolName
               THEN toolCalls[i].arguments.operations ELSE <<>>])

\* tc.arguments.operations on arguments that are null: a TypeError
ToolOperationsThrow(toolCalls) ==
    \E i \in 1..Len(toolCalls) :
        toolCalls[i].name = ToolName /\ toolCalls[i].arguments.isNull

\* a normalization that adds the block's operations to the native ones
NormalizeToolsConcat(resp) ==
    LET ops == IF ToolOperationsThrow(resp.toolCalls) THEN <<>>
               ELSE ToolOperations(resp.toolCalls)
        c1 == IF Len(ops) > 0 /\ resp.text = <<>> THEN <<"mReview">> ELSE resp.text
        data == extractExcelActions(c1)
        useBlock == data.ok /\ data.hasOps
        stripped == Trim(StripFence(c1))
    IN [threw |-> ToolOperationsThrow(resp.toolCalls) \/ data.threw,
        content |-> IF useBlock
                    THEN (IF stripped = <<>> THEN <<"mPrepared">> ELSE stripped)
                    ELSE c1,
        sets |-> Len(ops) > 0 \/ useBlock,
        pending |-> IF useBlock THEN ops \o data.operations ELSE ops]

\* The tool-calling variant: [threw, content, sets, pending]; sets = FALSE when
\* setPendingActions is not called.
NormalizeTools(resp) ==
    LET ops == IF ToolOperationsThrow(resp.toolCalls) THEN <<>>
               ELSE ToolOperations(resp.toolCalls)
        c1 == IF Len(ops) > 0 /\ resp.text = <<>> THEN <<"mReview">> ELSE resp.text
        data == extractExcelActions(c1)
        useBlock == data.ok /\ data.hasOps
        stripped == Trim(StripFence(c1))
    IN [threw |-> ToolOperationsThrow(resp.toolCalls) \/ data.threw,
        content |-> IF useBlock
                    THEN (IF stripped = <<>> THEN <<"mPrepared">> ELSE stripped)
                    ELSE c1,
        sets |-> Len(ops) > 0 \/ useBlock,
        pending |-> IF useBlock THEN data.operations ELSE ops]

\* The text-only variant
NormalizeText(resp) ==
    LET data == extractExcelActions(resp.text)
        clean == Trim(StripFence(resp.text))
    IN [threw |-> data.threw,
        content |-> IF clean # <<>> THEN clean
                    ELSE IF data.ok THEN <<"mPrepared">> ELSE resp.text,
        sets |-> data.ok /\ data.hasOps,
        pending |-> data.operations]

Normalize(v, resp) == IF v = "tools" THEN NormalizeTools(resp) ELSE NormalizeText(resp)

UserMessage == [role |-> "user", content |-> <<"w">>]
SuccessMessage == [role |-> "assistant", content |-> <<"mApplied">>]
AssistantMessage(c) == [role |-> "assistant", content |-> c]

(***************************************************************************)
(* The workbook context.  A used range is [rows, formulas]: the number of  *)
(* rows of values and the number of cells whose formula starts with "=".   *)
(* A context string is the sequence of its lines, each [kind, n].          *)
(***************************************************************************)
Line(kind, n) == [kind |-> kind, n |-> n]

\* the used ranges of the model: two columns, so at most 2 * rows formulas
Workbooks ==
    {wb \in [rows : 1..MaxRows, formulas : 0..MaxFormulas] :
        wb.formulas <= 2 * wb.rows}

\* the used range of the application specification
SmallWorkbook == [rows |-> 3, formulas |-> 1]

\* the context of a turn that has built none
NoContext == <<>>

\* "Show first 20 rows max", and formulaCells.slice(0, 20)
PreviewRows == 20
PreviewFormulas == 20

\* buildContextForLLM listing every row and every formula
buildContextForLLMUncut(live, wb) ==
    LET header == <<Line("activeSheet", 0), Line("sheets", 0)>>
    IN IF ~live THEN header
       ELSE header \o <<Line("usedRange", 0), Line("dimensions", wb.rows)>>
            \o <<Line("previewHeader", wb.rows)>>
            \o [i \in 1..wb.rows |-> Line("row", i)]
            \o (IF wb.formulas > 0
                THEN <<Line("formulasHeader", 0)>>
                     \o [k \in 1..wb.formulas |-> Line("formula", k)]
                ELSE <<>>)

\* ExcelService.buildContextForLLM.  Without a host getWorkbookContext gives
\* the demo sheet's names and no sheet data.
buildContextForLLM(live, wb) ==
    LET header == <<Line("activeSheet", 0), Line("sheets", 0)>>
        maxRows == IF wb.rows <= PreviewRows THEN wb.rows ELSE PreviewRows
        shown == IF wb.formulas <= PreviewFormulas THEN wb.formulas
                 ELSE PreviewFormulas
        preview ==
            IF wb.rows > 0
            THEN <<Line("previewHeader", maxRows)>>
                 \o [i \in 1..maxRows |-> Line("row", i)]
                 \o (IF wb.rows > maxRows
                     THEN <<Line("moreRows", wb.rows - maxRows)>> ELSE <<>>)
            ELSE <<>>
        formulas ==
            IF wb.formulas > 0
            THEN <<Line("formulasHeader", 0)>>
                 \o [k \in 1..shown |-> Line("formula", k)]
                 \o (IF wb.formulas > PreviewFormulas
                     THEN <<Line("moreFormulas", wb.formulas - PreviewFormulas)>>
                     ELSE <<>>)
            ELSE <<>>
    IN IF ~live THEN header
       ELSE header \o <<Line("usedRange", 0), Line("dimensions", wb.rows)>>
            \o preview \o formulas

\* The tool-calling sendMessage: ContextBuilder.buildContextString over the
\* metadata and the whole of range.values and range.formulas as JSON
buildContextString(wb) ==
    <<Line("activeSheet", 0), Line("sheets", 0), Line("sheetName", 0),
      Line("address", 0), Line("valuesJson", wb.rows), Line("formulasJson", wb.rows)>>

\* context.sync() with two calls in one batch
BatchSyncsTwice(batch) == IF batch = "getWorkbookMetadata" THEN 2 ELSE 1

\* The context.sync() calls of one Excel.run batch of the context read: each
\* loads its properties and awaits context.sync() once.
BatchSyncs(batch) == 1

\* The Excel.run batches of one context read, in order.  The tool-calling
\* sendMessage calls ContextBuilder.getWorkbookMetadata and then Excel.run
\* itself; the text-only one calls ExcelService.buildContextForLLM, whose
\* getWorkbookContext returns the demo names without a host and otherwise
\* runs a batch that calls getSheetData, another batch.
ContextBatches(v, live) ==
    IF v = "tools" THEN <<"getWorkbookMetadata", "sendMessage">>
    ELSE IF live THEN <<"getWorkbookContext", "getSheetData">>
    ELSE <<>>

RECURSIVE SumSyncs(_)
SumSyncs(batches) ==
    IF batches = <<>> THEN 0 ELSE BatchSyncs(Head(batches)) + SumSyncs(Tail(batches))

\* the context.sync() calls of one context read that succeeds
ContextSyncs(v, live) == SumSyncs(ContextBatches(v, live))

\* the context string that sendMessage hands to LLMService.chat
ContextText(v, live, wb) ==
    IF v = "text" THEN buildContextForLLM(live, wb) ELSE buildContextString(wb)

(***************************************************************************)
(* State.                                                                  *)
(***************************************************************************)
VARIABLES
    variant,            \* which ChatInterface/LLMService pair is built: "tools" | "text"
    hostLive,           \* ExcelService.isExcelAvailable()
    workbook,           \* the active sheet's used range, as the host reports it
    storedKey,          \* localStorage excel_ai_api_key
    provider,           \* localStorage excel_ai_provider (with getProvider's default)
    store,              \* localStorage excel_ai_messages
    messages,           \* useState: the conversation
    pendingActions,     \* useState: the pending batch
    isLoading,          \* useState
    executingActions,   \* useState
    error,              \* useState: "none" is null
    turnPc,             \* sendMessage: "idle" | "ctx" | "llm"
    turnProvider,       \* the adapter whose fetch is in flight
    applyPc,            \* handleApplyActions: "idle" | "run" | "sync"
    applyOps,           \* the list handed to executeOperations
    applyRun,           \* the batch callback's result, awaiting context.sync()
    sheet,              \* the operations the host has carried out, in order
    fetchCalls,         \* fetch calls made so far
    sends,              \* sendMessage calls that passed the key check
    applies,            \* Apply clicks
    lastResp,           \* history: the response of the last turn of this conversation
    lastExec,           \* history: the last finished executeOperations call
    turnStart,          \* history: messages and store when the turn in flight began
    excelContext,       \* sendMessage: the context string of the turn in flight
    contextSyncs        \* history: context.sync() calls of the last context read

vars == <<variant, hostLive, workbook, storedKey, provider, store, messages, pendingActions,
          isLoading, executingActions, error, turnPc, turnProvider, applyPc,
          applyOps, applyRun, sheet, fetchCalls, sends, applies, lastResp,
          lastExec, turnStart, excelContext, contextSyncs>>

envVars == <<variant, hostLive, workbook>>
storageVars == <<storedKey, provider>>
turnVars == <<turnPc, turnProvider, isLoading, sends, turnStart, excelContext,
              contextSyncs>>
applyVars == <<applyPc, applyOps, applyRun, executingActions, applies, lastExec>>

NoRaw == [content |-> <<>>, toolCalls |-> <<>>]

\* no chat call has built a system turn
NoSystem == [role |-> "none", prompt |-> "none", context |-> NoContext]

\* The first element of fullMessages in LLMService.chat: the system prompt
\* followed by the context string of the call
SystemTurn(ctx) == [role |-> "system", prompt |-> "EXCEL_SYSTEM_PROMPT", context |-> ctx]

NoResp == [outcome |-> "none", form |-> "none", raw |-> NoRaw, text |-> <<>>,
           toolCalls |-> <<>>, system |-> NoSystem]
NoExec == [done |-> FALSE, live |-> FALSE, ops |-> <<>>, run |-> EmptyRun,
           rejected |-> FALSE]
NoTurn == [messages |-> <<>>, store |-> <<>>, pending |-> <<>>]

Init ==
    /\ workbook = SmallWorkbook
    /\ variant \in {"tools", "text"}
    /\ hostLive \in BOOLEAN
    /\ storedKey = "absent"
    /\ provider = "openrouter"
    /\ store = <<>>
    /\ messages = <<>>
    /\ pendingActions = <<>>
    /\ isLoading = FALSE
    /\ executingActions = FALSE
    /\ error = "none"
    /\ turnPc = "idle"
    /\ turnProvider = "none"
    /\ applyPc = "idle"
    /\ applyOps = <<>>
    /\ applyRun = EmptyRun
    /\ sheet = <<>>
    /\ fetchCalls = 0
    /\ sends = 0
    /\ applies = 0
    /\ lastResp = NoResp
    /\ lastExec = NoExec
    /\ turnStart = NoTurn
    /\ excelContext = NoContext
    /\ contextSyncs = 0

(***************************************************************************)
(* Settings panel.                                                         *)
(***************************************************************************)
\* handleSave with k in the key field (trimmed) and p chosen: saveApiKey when
\* k is not empty, then saveProvider
handleSave(k, p) ==
    /\ storedKey' = IF k # "" THEN Btoa(k) ELSE storedKey
    /\ provider' = p
    /\ UNCHANGED <<envVars, store, messages, pendingActions, error,
                   turnVars, applyVars, sheet, fetchCalls, lastResp>>

handleClearKey ==
    /\ storedKey # "absent"
    /\ storedKey' = "absent"
    /\ UNCHANGED <<envVars, provider, store, messages, pendingActions, error,
                   turnVars, applyVars, sheet, fetchCalls, lastResp>>

(***************************************************************************)
(* sendMessage.                                                            *)
(***************************************************************************)
\* sendMessage with no API key stored: the error, and nothing else
SendNoKey ==
    /\ ~isLoading
    /\ ~hasApiKey(storedKey)
    /\ error' = "needKey"
    /\ UNCHANGED <<envVars, storageVars, store, messages, pendingActions,
                   turnVars, applyVars, sheet, fetchCalls, lastResp>>

\* sendMessage up to its first await, but for setPendingActions([])
SendCommon ==
    /\ ~isLoading
    /\ hasApiKey(storedKey)
    /\ sends < MaxSends
    /\ sends' = sends + 1
    /\ turnStart' = [messages |-> messages, store |-> store,
                     pending |-> pendingActions]
    /\ UNCHANGED excelContext
    /\ contextSyncs' = 0
    /\ messages' = Append(messages, UserMessage)
    /\ store' = SaveEffect(messages', store)
    /\ error' = "none"
    /\ isLoading' = TRUE
    /\ turnPc' = "ctx"
    \* history: no response of this turn yet
    /\ lastResp' = NoResp
    /\ UNCHANGED <<envVars, storageVars, turnProvider, applyVars, sheet,
                   fetchCalls>>

\* sendMessage that forgets setPendingActions([])
SendMessageKeepPending == SendCommon /\ UNCHANGED pendingActions

\* sendMessage without its isLoading guard
SendMessageUnguarded ==
    /\ hasApiKey(storedKey)
    /\ sends < MaxSends
    /\ sends' = sends + 1
    /\ turnStart' = [messages |-> messages, store |-> store,
                     pending |-> pendingActions]
    /\ UNCHANGED excelContext
    /\ contextSyncs' = 0
    /\ messages' = Append(messages, UserMessage)
    /\ store' = SaveEffect(messages', store)
    /\ error' = "none"
    /\ isLoading' = TRUE
    /\ turnPc' = "ctx"
    /\ pendingActions' = <<>>
    /\ lastResp' = NoResp
    /\ UNCHANGED <<envVars, storageVars, turnProvider, applyVars, sheet,
                   fetchCalls>>

\* sendMessage up to its first await
SendMessage == SendCommon /\ pendingActions' = <<>>

\* the catch of sendMessage without its finally
TurnCatchNoFinally(msg) ==
    /\ error' = msg
    /\ excelContext' = NoContext
    /\ UNCHANGED isLoading
    /\ turnPc' = "idle"
    /\ turnProvider' = "none"

\* the catch and finally of sendMessage
TurnCatch(msg) ==
    /\ error' = msg
    \* the context string is a local of sendMessage
    /\ excelContext' = NoContext
    /\ isLoading' = FALSE
    /\ turnPc' = "idle"
    /\ turnProvider' = "none"

\* Reading the workbook context fails: Excel is not defined (the tool-calling
\* variant reads through Excel.run without an availability check) or the
\* host rejects the read.
ContextFail ==
    /\ turnPc = "ctx"
    /\ \/ variant = "tools" /\ ~hostLive
       \/ hostLive
    /\ TurnCatch("contextError")
    \* Excel.run throws where Excel is not defined; on a host, the
    \* synchronization of the first or of the second batch rejects
    /\ contextSyncs' \in (IF hostLive THEN 1..ContextSyncs(variant, hostLive) ELSE {0})
    /\ lastResp' = [NoResp EXCEPT !.outcome = "contextError"]
    /\ UNCHANGED <<envVars, storageVars, store, messages, pendingActions, sends,
                   turnStart, applyVars, sheet, fetchCalls>>

\* a chat call that puts its system turn at the head of the conversation
ContextDoneStoresSystem ==
    /\ turnPc = "ctx"
    /\ hostLive \/ variant = "text"
    /\ contextSyncs' = ContextSyncs(variant, hostLive)
    /\ LET c == ChatStart(getApiKey(storedKey), provider)
       IN /\ fetchCalls' = fetchCalls + c.fetches
          /\ IF c.threw # "none"
             THEN /\ TurnCatch(c.threw)
                  /\ lastResp' = [NoResp EXCEPT !.outcome = c.threw]
             ELSE /\ turnPc' = "llm"
                  /\ turnProvider' = provider
                  /\ excelContext' = ContextText(variant, hostLive, workbook)
                  \* history: the system turn of this call's request
                  /\ lastResp' = [NoResp EXCEPT !.system = SystemTurn(excelContext')]
                  /\ UNCHANGED <<error, isLoading>>
    /\ messages' = <<[role |-> "system", content |-> <<"w">>]>> \o messages
    /\ store' = SaveEffect(messages', store)
    /\ UNCHANGED <<envVars, storageVars, pendingActions, sends,
                   turnStart, applyVars, sheet>>

\* The workbook context is read and LLMService.chat is called: it throws
\* before its fetch or leaves one fetch in flight.
ContextDone ==
    /\ turnPc = "ctx"
    /\ hostLive \/ variant = "text"
    /\ contextSyncs' = ContextSyncs(variant, hostLive)
    /\ LET c == ChatStart(getApiKey(storedKey), provider)
       IN /\ fetchCalls' = fetchCalls + c.fetches
          /\ IF c.threw # "none"
             THEN /\ TurnCatch(c.threw)
                  /\ lastResp' = [NoResp EXCEPT !.outcome = c.threw]
             ELSE /\ turnPc' = "llm"
                  /\ turnProvider' = provider
                  /\ excelContext' = ContextText(variant, hostLive, workbook)
                  \* history: the system turn of this call's request
                  /\ lastResp' = [NoResp EXCEPT !.system = SystemTurn(excelContext')]
                  /\ UNCHANGED <<error, isLoading>>
    /\ UNCHANGED <<envVars, storageVars, store, messages, pendingActions, sends,
                   turnStart, applyVars, sheet>>

\* a catch that also reports the failure as an assistant message
ResponseFailAppendsError ==
    /\ turnPc = "llm"
    /\ TurnCatch("providerError")
    /\ lastResp' = [NoResp EXCEPT !.outcome = "providerError"]
    /\ messages' = Append(messages, AssistantMessage(<<"mError">>))
    /\ store' = SaveEffect(messages', store)
    /\ UNCHANGED <<envVars, storageVars, pendingActions, sends, turnStart,
                   applyVars, sheet, fetchCalls, contextSyncs>>

\* a failing request that is sent again
ResponseFailRetries ==
    /\ turnPc = "llm"
    /\ fetchCalls < 4
    /\ fetchCalls' = fetchCalls + 1
    /\ UNCHANGED <<envVars, storageVars, store, messages, pendingActions, error,
                   turnVars, applyVars, sheet, lastResp>>

\* The provider answers with a non-success status, or the fetch rejects.
ResponseFail ==
    /\ turnPc = "llm"
    /\ TurnCatch("providerError")
    /\ lastResp' = [NoResp EXCEPT !.outcome = "providerError"]
    /\ UNCHANGED <<envVars, storageVars, store, messages, pendingActions, sends,
                   turnStart, applyVars, sheet, fetchCalls, contextSyncs>>

\* The provider answers 200 with body raw, its tool-call arguments in the
\* given form: the adapter, then the rest of sendMessage, but for the sheet
\* (which sendMessage leaves alone).
ResponseCore(form, raw) ==
    /\ turnPc = "llm"
    /\ raw \in ResponsesOf(form)
    /\ LET \* history: the form of the arguments the adapter read, if it read any
           seen == IF \/ raw.toolCalls = <<>>
                      \/ variant = "text"
                      \/ turnProvider = "huggingface"
                   THEN "none" ELSE form
           resp == IF variant = "tools" THEN Adapter(turnProvider, form, raw)
                   ELSE AdapterText(turnProvider, raw)
           n == Normalize(variant, resp)
       IN IF resp.threw
          THEN \* JSON.parse in the adapter: a SyntaxError
               /\ TurnCatch("parseError")
               /\ lastResp' = [NoResp EXCEPT !.outcome = "parseError", !.form = seen,
                                              !.raw = raw]
               /\ UNCHANGED <<messages, store, pendingActions>>
          ELSE IF n.threw
          THEN \* sendMessage's own statements throw, inside its try
               /\ TurnCatch("typeError")
               /\ lastResp' = [outcome |-> "typeError", form |-> seen, raw |-> raw,
                               text |-> resp.text, toolCalls |-> resp.toolCalls,
                               system |-> lastResp.system]
               /\ UNCHANGED <<messages, store, pendingActions>>
          ELSE /\ messages' = Append(messages, AssistantMessage(n.content))
               /\ store' = SaveEffect(messages', store)
               /\ pendingActions' = IF n.sets THEN n.pending ELSE pendingActions
               /\ isLoading' = FALSE
               /\ turnPc' = "idle"
               /\ turnProvider' = "none"
               /\ excelContext' = NoContext
               /\ lastResp' = [outcome |-> "ok", form |-> seen, raw |-> raw,
                               text |-> resp.text, toolCalls |-> resp.toolCalls,
                               system |-> lastResp.system]
               /\ UNCHANGED error
    /\ UNCHANGED <<envVars, storageVars, sends, turnStart, applyVars, fetchCalls,
                   contextSyncs>>

\* a sendMessage that applies the batch it has just normalized
ResponseAutoApply(form, raw) ==
    /\ ResponseCore(form, raw)
    /\ sheet' = sheet \o pendingActions'

ResponseDone(form, raw) ==
    /\ ResponseCore(form, raw)
    /\ UNCHANGED sheet

(***************************************************************************)
(* handleApplyActions, Discard, clearChat.                                 *)
(***************************************************************************)
\* handleApplyActions after executeOperations resolved
ApplyResolved ==
    /\ messages' = Append(messages, SuccessMessage)
    /\ store' = SaveEffect(messages', store)
    /\ pendingActions' = <<>>
    /\ executingActions' = FALSE
    /\ applyPc' = "idle"
    /\ UNCHANGED error

\* handleApplyActions after executeOperations rejected, clearing the batch
ApplyRejectedClears ==
    /\ error' = "applyFailed"
    /\ executingActions' = FALSE
    /\ applyPc' = "idle"
    /\ pendingActions' = <<>>
    /\ UNCHANGED <<messages, store>>

\* handleApplyActions after executeOperations rejected
ApplyRejected ==
    /\ error' = "applyFailed"
    /\ executingActions' = FALSE
    /\ applyPc' = "idle"
    /\ UNCHANGED <<messages, store, pendingActions>>

\* The Apply button (disabled while executingActions).  With no host,
\* executeOperations logs and returns, and the handler runs to its end.
ApplyClick ==
    /\ pendingActions # <<>>
    /\ ~executingActions
    /\ applies < MaxApplies
    /\ applies' = applies + 1
    /\ applyOps' = pendingActions
    /\ IF hostLive
       THEN /\ executingActions' = TRUE
            /\ applyPc' = "run"
            /\ UNCHANGED <<messages, store, pendingActions, error, lastExec>>
       ELSE /\ ApplyResolved
            /\ lastExec' = [done |-> TRUE, live |-> FALSE, ops |-> pendingActions,
                            run |-> EmptyRun, rejected |-> FALSE]
    /\ UNCHANGED <<envVars, storageVars, turnVars, applyRun, sheet, fetchCalls,
                   lastResp>>

\* a loop that awaits context.sync() after each operation
ExecBatchSyncsEach ==
    /\ applyPc = "run"
    /\ \E fm \in FailModes :
         LET run == RunBatch(applyOps, fm)
         IN /\ applyRun' = run
            /\ sheet' = sheet \o Committed(run.queue)
            /\ applyPc' = "sync"
            /\ UNCHANGED <<messages, store, pendingActions, error,
                           executingActions, lastExec>>
    /\ UNCHANGED <<envVars, storageVars, turnVars, applyOps, applies,
                   fetchCalls, lastResp>>

\* Excel.run calls the batch back: the loop over the operations, up to
\* await context.sync()
ExecBatch ==
    /\ applyPc = "run"
    /\ \E fm \in FailModes :
         LET run == RunBatch(applyOps, fm)
         IN /\ applyRun' = run
            /\ IF run.escaped
               THEN /\ ApplyRejected
                    /\ lastExec' = [done |-> TRUE, live |-> TRUE, ops |-> applyOps,
                                    run |-> run, rejected |-> TRUE]
               ELSE /\ applyPc' = "sync"
                    /\ UNCHANGED <<messages, store, pendingActions, error,
                                   executingActions, lastExec>>
    /\ UNCHANGED <<envVars, storageVars, turnVars, applyOps, applies, sheet,
                   fetchCalls, lastResp>>

\* context.sync() settles, and handleApplyActions runs to its end
SyncDone ==
    /\ applyPc = "sync"
    /\ sheet' = sheet \o Committed(applyRun.queue)
    /\ lastExec' = [done |-> TRUE, live |-> TRUE, ops |-> applyOps, run |-> applyRun,
                    rejected |-> SyncRejects(applyRun.queue)]
    /\ IF SyncRejects(applyRun.queue) THEN ApplyRejected ELSE ApplyResolved
    /\ UNCHANGED <<envVars, storageVars, turnVars, applyOps, applyRun, applies,
                   fetchCalls, lastResp>>

\* The Discard button (disabled while executingActions)
Discard ==
    /\ pendingActions # <<>>
    /\ ~executingActions
    /\ pendingActions' = <<>>
    /\ UNCHANGED <<envVars, storageVars, store, messages, error, turnVars,
                   applyVars, sheet, fetchCalls, lastResp>>

clearChat ==
    /\ messages' = <<>>
    /\ pendingActions' = <<>>
    /\ store' = clearMessages
    \* history: the cleared conversation's last response and turn start go
    \* too; the request of a turn in flight stays in flight
    /\ lastResp' = IF turnPc = "llm" THEN [NoResp EXCEPT !.system = lastResp.system]
                   ELSE NoResp
    /\ turnStart' = NoTurn
    /\ UNCHANGED <<envVars, storageVars, error, turnPc, turnProvider, isLoading, sends,
                   excelContext, contextSyncs, applyVars, sheet, fetchCalls>>

(***************************************************************************)
(* The application.                                                        *)
(***************************************************************************)
Next ==
    \/ \E k \in Keys \cup {""}, p \in Providers : handleSave(k, p)
    \/ handleClearKey
    \/ SendNoKey
    \/ SendMessage
    \/ ContextFail
    \/ ContextDone
    \/ ResponseFail
    \/ \E raw \in TurnResponses : ResponseDone(NativeForm(turnProvider), raw)
    \/ ApplyClick
    \/ ExecBatch
    \/ SyncDone
    \/ Discard
    \/ clearChat

Spec == Init /\ [][Next]_vars

\* The application with a key stored, used for chat turns and applies, when
\* every call that sendMessage and handleApplyActions await settles: the
\* context read, the provider's answer, the batch callback of Excel.run and
\* its context.sync().  The key may be cleared while a turn is in flight.
InitLive ==
    /\ workbook = SmallWorkbook
    /\ variant \in {"tools", "text"}
    /\ hostLive \in BOOLEAN
    /\ storedKey = Btoa("k1")
    /\ provider \in Providers
    /\ store = <<>>
    /\ messages = <<>>
    /\ pendingActions = <<>>
    /\ isLoading = FALSE
    /\ executingActions = FALSE
    /\ error = "none"
    /\ turnPc = "idle"
    /\ turnProvider = "none"
    /\ applyPc = "idle"
    /\ applyOps = <<>>
    /\ applyRun = EmptyRun
    /\ sheet = <<>>
    /\ fetchCalls = 0
    /\ sends = 0
    /\ applies = 0
    /\ lastResp = NoResp
    /\ lastExec = NoExec
    /\ turnStart = NoTurn
    /\ excelContext = NoContext
    /\ contextSyncs = 0

NextLive ==
    \/ handleClearKey
    \/ SendMessage
    \/ ContextFail
    \/ ContextDone
    \/ ResponseFail
    \/ \E raw \in TurnResponses : ResponseDone(NativeForm(turnProvider), raw)
    \/ ApplyClick
    \/ ExecBatch
    \/ SyncDone
    \/ Discard

Settles ==
    /\ WF_vars(ContextDone \/ ContextFail)
    /\ WF_vars(ResponseFail
                 \/ \E raw \in TurnResponses : ResponseDone(NativeForm(turnProvider), raw))
    /\ WF_vars(ExecBatch)
    /\ WF_vars(SyncDone)

SpecLive == InitLive /\ [][NextLive]_vars /\ Settles

(***************************************************************************)
(* Normalization alone: one turn whose request is in flight, answered with *)
(* every body of RawResponses, for every variant and provider.             *)
(***************************************************************************)
InitNorm ==
    /\ workbook = SmallWorkbook
    /\ variant \in {"tools", "text"}
    /\ hostLive \in BOOLEAN
    /\ storedKey = Btoa("k1")
    /\ provider \in Providers
    /\ store = <<UserMessage>>
    /\ messages = <<UserMessage>>
    /\ pendingActions = <<>>
    /\ isLoading = TRUE
    /\ executingActions = FALSE
    /\ error = "none"
    /\ turnPc = "llm"
    /\ turnProvider = provider
    /\ applyPc = "idle"
    /\ applyOps = <<>>
    /\ applyRun = EmptyRun
    /\ sheet = <<>>
    /\ fetchCalls = 1
    /\ sends = 1
    /\ applies = 0
    /\ lastExec = NoExec
    /\ turnStart = NoTurn
    /\ hostLive \/ variant = "text"
    /\ excelContext = ContextText(variant, hostLive, workbook)
    /\ lastResp = [NoResp EXCEPT !.system = SystemTurn(excelContext)]
    /\ contextSyncs = ContextSyncs(variant, hostLive)

NextNorm ==
    \/ \E form \in ArgForms, raw \in RawResponses : ResponseDone(form, raw)
    \/ ResponseFail

SpecNorm == InitNorm /\ [][NextNorm]_vars

(***************************************************************************)
(* The executor alone: a batch is pending, for every operation list of up  *)
(* to MaxOps operations of OpPool.                                         *)
(***************************************************************************)
OpLists == UNION {[1..n -> OpPool] : n \in 1..MaxOps}

\* the LLMResponse whose one tool call carries ops
ToolResponse(ops) ==
    [outcome |-> "ok",
     form |-> "object",
     raw |-> NoRaw,
     text |-> <<"w">>,
     toolCalls |-> <<[name |-> ToolName, arguments |-> JsonObject(TRUE, ops)]>>,
     system |-> SystemTurn(NoContext)]

InitExec ==
    /\ workbook = SmallWorkbook
    /\ variant = "tools"
    /\ hostLive \in BOOLEAN
    /\ storedKey = Btoa("k1")
    /\ provider = "gemini"
    /\ messages = <<UserMessage, AssistantMessage(<<"w">>)>>
    /\ store = messages
    /\ pendingActions \in OpLists
    /\ isLoading = FALSE
    /\ executingActions = FALSE
    /\ error = "none"
    /\ turnPc = "idle"
    /\ turnProvider = "none"
    /\ applyPc = "idle"
    /\ applyOps = <<>>
    /\ applyRun = EmptyRun
    /\ sheet = <<>>
    /\ fetchCalls = 1
    /\ sends = 1
    /\ applies = 0
    /\ lastResp = ToolResponse(pendingActions)
    /\ lastExec = NoExec
    /\ turnStart = NoTurn
    /\ excelContext = NoContext
    /\ contextSyncs = 0

NextExec ==
    \/ ApplyClick
    \/ ExecBatch
    \/ SyncDone
    \/ Discard

SpecExec == InitExec /\ [][NextExec]_vars

(***************************************************************************)
(* Claims.                                                                 *)
(***************************************************************************)
LastMessage == messages[Len(messages)]

\* an operation the host carries out: a handled action, a well-formed
\* address, its fields present
ValidOp(op) ==
    /\ op.address \in ValidAddresses
    /\ \/ op.action \in {"setCellValue", "setFormula"}
       \/ op.action = "format" /\ op.format # "none"

\* an operation with an unknown action or a malformed address
InvalidOp(op) ==
    \/ op.action \notin {"setCellValue", "setFormula", "format"}
    \/ op.address \notin ValidAddresses /\ (op.action = "format" => op.format # "none")

\* ops[i] is the one invalid operation of ops, with valid ones around it
OneInvalidAt(ops, i) ==
    /\ 1 < i /\ i < Len(ops)
    /\ InvalidOp(ops[i])
    /\ \A j \in 1..Len(ops) : j # i => ValidOp(ops[j])

\* C1: on a live host, executeOperations attempts every operation of the
\* list: each exception raised while applying operation i is caught inside
\* the loop (none escapes it) and operations i+1..n are attempted after it.
C1_EveryOperationAttempted ==
    /\ applyPc = "sync" =>
         /\ ~applyRun.escaped
         /\ applyRun.attempted = applyOps
         /\ \A k \in 1..Len(applyRun.caught) : applyRun.caught[k] \in 1..Len(applyOps)
    /\ (lastExec.done /\ lastExec.live) =>
         /\ ~lastExec.run.escaped
         /\ lastExec.run.attempted = lastExec.ops

\* an executeOperations call that finished although an operation before the
\* last one raised
C1_Witness ==
    /\ lastExec.done /\ lastExec.live
    /\ \E k \in 1..Len(lastExec.run.caught) : lastExec.run.caught[k] < Len(lastExec.ops)
    /\ lastExec.run.attempted = lastExec.ops

\* C2: when a list holds one invalid operation (unknown action or
\* malformed address) among valid ones, every valid operation is applied to
\* the sheet and executeOperations does not reject (handleApplyActions does
\* not reach 'Failed to apply changes').
C2_InvalidOperationIsolated ==
    (lastExec.done /\ lastExec.live
       /\ \E i \in 1..Len(lastExec.ops) : OneInvalidAt(lastExec.ops, i))
    => /\ ~lastExec.rejected
       /\ error # "applyFailed"
       /\ \A j \in 1..Len(lastExec.ops) :
            ValidOp(lastExec.ops[j]) => lastExec.ops[j] \in Range(sheet)

\* C3: the sheet changes only in the step that ends an executeOperations
\* call started by the Apply button, and only by operations of the batch
\* that was pending when Apply was pressed; a step of sendMessage (receiving
\* and normalizing a response included) never changes the sheet.
C3_OnlyApplyMutates ==
    [][/\ (sheet' # sheet) =>
            /\ applyPc = "sync"
            /\ Len(sheet') >= Len(sheet)
            /\ SubSeq(sheet', 1, Len(sheet)) = sheet
            /\ \A i \in (Len(sheet) + 1)..Len(sheet') : sheet'[i] \in Range(applyOps)
       /\ (applyPc = "idle" /\ applyPc' # "idle") =>
            /\ pendingActions # <<>>
            /\ applyOps' = pendingActions
       /\ (turnPc' # turnPc) => sheet' = sheet]_vars

\* the sheet was changed through Apply, and the batch of a later response
\* is held without having been applied
C3_Witness ==
    /\ sheet # <<>>
    /\ applies = 1
    /\ applyPc = "idle"
    /\ lastResp.outcome = "ok"
    /\ pendingActions # <<>>
    /\ pendingActions # applyOps
    /\ Range(pendingActions) \cap Range(sheet) = {}

\* the candidates for the batch of a normalized response: its native
\* tool-call operations and the operations of its fenced block
BatchesOf(resp) ==
    {ToolOperations(resp.toolCalls), extractExcelActions(resp.text).operations}

\* C4: the pending batch is empty or is exactly the operations of the most
\* recent response (of one of its sources); nothing of an earlier batch is
\* kept.
C4_OneBatchPending ==
    pendingActions # <<>> =>
        /\ lastResp.outcome = "ok"
        /\ turnPc = "idle"
        /\ pendingActions \in BatchesOf(lastResp)

\* a batch was pending and unapplied when the turn started, and the batch
\* of the turn's response now is the pending one
C4_Witness ==
    /\ turnStart.pending # <<>>
    /\ applies = 0
    /\ turnPc = "idle"
    /\ lastResp.outcome = "ok"
    /\ pendingActions # <<>>
    /\ pendingActions # turnStart.pending

\* C5: when a response carries native tool operations and a fenced block
\* with other operations, the pending batch is the native operations and the
\* displayed text has no fenced block.
C5_NativeCallsTakePrecedence ==
    (/\ variant = "tools"
     /\ lastResp.outcome = "ok"
     /\ ToolOperations(lastResp.toolCalls) # <<>>
     /\ extractExcelActions(lastResp.text).ok
     /\ extractExcelActions(lastResp.text).hasOps
     /\ extractExcelActions(lastResp.text).operations # ToolOperations(lastResp.toolCalls))
    => /\ pendingActions = ToolOperations(lastResp.toolCalls)
       /\ ~HasFence(LastMessage.content)

\* the provider's body has a tool call whose arguments are not JSON
MalformedArguments(raw) ==
    \E i \in 1..Len(raw.toolCalls) : ~JsonParse(<<raw.toolCalls[i].arguments>>).ok

\* C6: when the provider returns tool-call arguments that are not JSON (and
\* a text without a fenced block) the turn is not aborted: no error is shown,
\* no operations are pending and the assistant's text is appended to the
\* conversation.
C6_MalformedArgumentsNotFatal ==
    (/\ variant = "tools"
     /\ lastResp.outcome # "none"
     /\ lastResp.raw.toolCalls # <<>>
     /\ MalformedArguments(lastResp.raw)
     /\ ~HasFence(lastResp.raw.content))
    => /\ error = "none"
       /\ pendingActions = <<>>
       /\ isLoading = FALSE
       /\ LastMessage.role = "assistant"

\* the first fenced block of the text is not valid JSON
BadBlock(text) ==
    /\ HasFence(text)
    /\ FenceCapture(text) # <<>>
    /\ ~JsonParse(FenceCapture(text)).ok

C8_NoFenceDisplayed ==
    lastResp.outcome = "ok" => ~HasFence(LastMessage.content)

\* the step in which the turn in flight fails with a provider or network error
ProviderFailure == turnPc = "llm" /\ turnPc' = "idle" /\ lastResp'.outcome = "providerError"

\* C9 as stated: after a provider or network failure the error is shown and
\* the conversation, in memory and in the store, is what it was before the
\* turn started.
C9_HistoryUnchanged ==
    [][ProviderFailure =>
          /\ error' = "providerError"
          /\ messages' = turnStart.messages
          /\ store' = turnStart.store]_vars

\* C9 as amended: the failing turn is aborted with the error shown; the
\* user's message, appended and persisted when the turn started, is the only
\* thing the turn adds: the failure appends and persists nothing.
C9_OnlyUserMessageAdded ==
    [][/\ ProviderFailure =>
            /\ error' = "providerError"
            /\ isLoading' = FALSE
            /\ messages' = messages
            /\ store' = store
            /\ pendingActions' = pendingActions
       /\ (turnPc = "idle" /\ turnPc' # "idle") =>
            /\ messages' = Append(messages, UserMessage)
            /\ store' = messages']_vars

\* a turn that failed at the provider: the error is shown and the
\* conversation is the one before the turn with the user's message
C9_Witness ==
    /\ lastResp.outcome = "providerError"
    /\ error = "providerError"
    /\ turnPc = "idle"
    /\ ~isLoading
    /\ messages = Append(turnStart.messages, UserMessage)
    /\ store = messages

\* C10: while no API key is stored, the call of LLMService.chat makes no
\* fetch and fails with the missing-credential error, whatever the provider.
C10_NoKeyNoFetch ==
    [][(turnPc = "ctx" /\ turnPc' # "ctx" /\ getApiKey(storedKey) = "null"
          /\ lastResp'.outcome # "contextError")
       => /\ fetchCalls' = fetchCalls
          /\ turnPc' = "idle"
          /\ error' = "noKey"
          /\ lastResp'.outcome = "noKey"]_vars

\* chat was called with no key stored, for a provider other than the
\* default one: the error, and no fetch made
C10_Witness ==
    /\ lastResp.outcome = "noKey"
    /\ error = "noKey"
    /\ provider # "openrouter"
    /\ fetchCalls = 0
    /\ sends = 1

\* C11: a failure of the context read (or the absence of a host) does not
\* abort the turn: the step that ends the context read goes on to the model
\* call, and no context error is raised to sendMessage.
C11_ContextReadNeverAborts ==
    [][(turnPc = "ctx" /\ turnPc' # "ctx")
       => /\ lastResp'.outcome # "contextError"
          /\ error' # "contextError"]_vars

\* the actions the switch of executeOperations has a case for, among those of
\* the model's operations
HandledActions == {"setCellValue", "setFormula", "format"}

\* the list without the operations whose action has no case
WithoutUnknown(ops) == SelectSeq(ops, LAMBDA op : op.action \in HandledActions)

\* C12: an operation whose action the executor has no case for raises
\* nothing and queues nothing: the batch runs as the same list without it
\* (same host commands in the same order, same exceptions caught, same
\* outcome of context.sync()), and the sheet never shows such an operation.
C12_UnknownActionSkipped ==
    [][/\ (applyPc # "idle" /\ applyPc' = "idle") =>
            \E fm \in FailModes :
               LET r == RunBatch(WithoutUnknown(applyOps), fm)
               IN /\ lastExec'.done /\ lastExec'.live
                  /\ lastExec'.ops = applyOps
                  /\ lastExec'.run = RunBatch(applyOps, fm)
                  /\ lastExec'.run.queue = r.queue
                  /\ Len(lastExec'.run.caught) = Len(r.caught)
                  /\ ~lastExec'.run.escaped
                  /\ lastExec'.rejected = SyncRejects(r.queue)
                  /\ sheet' = sheet \o Committed(r.queue)
       /\ \A i \in 1..Len(sheet') : sheet'[i].action \in HandledActions
       /\ \A i \in 1..Len(applyRun'.queue) :
              applyRun'.queue[i].op.action \in HandledActions]_vars

\* a batch with an unknown action between two valid operations has run: the
\* sheet holds the two valid ones, nothing was caught, Apply succeeded
C12_Witness ==
    /\ lastExec.done /\ lastExec.live
    /\ Len(lastExec.ops) = 3
    /\ lastExec.ops[2].action \notin HandledActions
    /\ ValidOp(lastExec.ops[1]) /\ ValidOp(lastExec.ops[3])
    /\ sheet = <<lastExec.ops[1], lastExec.ops[3]>>
    /\ lastExec.run.caught = <<>>
    /\ ~lastExec.rejected
    /\ error = "none"

\* the action enum of EXCEL_TOOLS
ToolSchemaActions ==
    {"setCellValue", "setFormula", "format", "createTable", "createChart",
     "createWorksheet", "activateWorksheet", "deleteWorksheet",
     "sortRange", "filterRange", "autoFit", "createPivotTable"}

\* the "Supported actions" line of the system prompt's excel-json convention
TextConventionActions ==
    {"setCellValue", "setFormula", "format", "createTable", "createChart"}

\* the action names the build in use describes to the model
DescribedActions(v) == IF v = "tools" THEN ToolSchemaActions ELSE TextConventionActions

\* C13: the tool schema and the textual excel-json convention describe the
\* same set of action names: whichever rendering the build in use sends, it
\* names the actions the other one names.
C13_SameActionSet ==
    \A v \in {"tools", "text"} : DescribedActions(variant) = DescribedActions(v)

\* the step in which handleApplyActions runs to its end
ApplyEnds ==
    \/ applyPc # "idle" /\ applyPc' = "idle"
    \/ applyPc = "idle" /\ applyPc' = "idle" /\ applies' = applies + 1

\* the step of the Discard button: the batch goes while no handler moves
DiscardStep ==
    /\ pendingActions # <<>> /\ pendingActions' = <<>>
    /\ messages' = messages
    /\ applies' = applies /\ applyPc' = applyPc
    /\ sends' = sends /\ turnPc' = turnPc

C15_OneTurnInFlight ==
    [][/\ (turnPc # "idle") = isLoading
       /\ (turnPc = "llm") = (turnProvider # "none")
       /\ (sends' # sends) => (turnPc = "idle" /\ ~isLoading /\ turnPc' = "ctx")
       /\ (turnPc' = "ctx" /\ turnPc # "ctx") => (turnPc = "idle" /\ sends' = sends + 1)
       /\ (fetchCalls' # fetchCalls) => (turnPc = "ctx" /\ turnPc' = "llm")]_vars

\* the second turn's request is in flight after the first turn has ended
C15_Witness ==
    /\ sends = 2
    /\ turnPc = "llm"
    /\ isLoading
    /\ fetchCalls = 2
    /\ Len(messages) >= 3

\* C16: a call of LLMService.chat that passes the credential check makes
\* exactly one fetch (when the call is made, none while the request is in
\* flight or when it ends); a failed request is not sent again: the failure
\* ends the turn with the provider's error shown.
C16_OneFetchPerChat ==
    [][/\ (turnPc = "ctx" /\ turnPc' = "llm") =>
            /\ fetchCalls' = fetchCalls + 1
            /\ getApiKey(storedKey) # "null"
            /\ turnProvider' \in Providers
       /\ (turnPc # "ctx" \/ turnPc' # "llm") => fetchCalls' = fetchCalls
       /\ (turnPc = "llm" /\ turnPc' # "llm") => turnPc' = "idle"
       /\ ProviderFailure =>
            /\ error' = "providerError"
            /\ turnPc' = "idle"
            /\ ~isLoading'
            /\ fetchCalls' = fetchCalls]_vars

\* one turn whose request failed, for a provider other than the default one:
\* one fetch was made, the error is shown, no request is in flight
C16_Witness ==
    /\ sends = 1
    /\ fetchCalls = 1
    /\ provider = "gemini"
    /\ lastResp.outcome = "providerError"
    /\ error = "providerError"
    /\ turnPc = "idle"
    /\ turnProvider = "none"

\* the operations that the tool calls of a body carry, whatever the form in
\* which their arguments arrive
ArgumentOperations(raw) ==
    FlatMap([i \in 1..Len(raw.toolCalls) |->
               IF raw.toolCalls[i].name = ToolName
               THEN JsonValue(raw.toolCalls[i].arguments).operations ELSE <<>>])

\* every tool call of the body carries a well-formed arguments object
WellFormedArguments(raw) ==
    \A i \in 1..Len(raw.toolCalls) :
        /\ JsonValue(raw.toolCalls[i].arguments).ok
        /\ ~JsonValue(raw.toolCalls[i].arguments).isNull

\* C17: for the adapters that return tool calls (OpenRouter, Gemini),
\* well-formed arguments are accepted whether they arrive as an object or as
\* a JSON-encoded string, and give the same operations: the turn ends without
\* error and the pending batch is the operations the arguments carry.
C17_BothArgumentFormsAccepted ==
    (/\ variant = "tools"
     /\ provider \in {"openrouter", "gemini"}
     /\ lastResp.outcome # "none"
     /\ lastResp.form \in ArgForms
     /\ WellFormedArguments(lastResp.raw)
     /\ ArgumentOperations(lastResp.raw) # <<>>
     /\ ~HasFence(lastResp.raw.content))
    => /\ lastResp.outcome = "ok"
       /\ error = "none"
       /\ pendingActions = ArgumentOperations(lastResp.raw)

(***************************************************************************)
(* The history store alone: the conversation is replaced by message lists  *)
(* of up to MaxSaved messages (the save effect stores each) and cleared.   *)
(***************************************************************************)
\* the message with identifier i, as sendMessage builds it
Entry(i) ==
    [id |-> i,
     role |-> IF i % 2 = 1 THEN "user" ELSE "assistant",
     content |-> <<"w">>,
     timestamp |-> <<"Date", i>>]

\* the conversation of n messages whose identifiers start after base
Conversation(base, n) == [i \in 1..n |-> Entry(base + i)]

SavedLists == {Conversation(base, n) : base \in {0, 100}, n \in 1..MaxSaved}

\* setMessages(list), and the save effect that follows it
SetMessages(list) ==
    /\ list # messages
    /\ messages' = list
    /\ store' = SaveEffect(messages', store)
    /\ UNCHANGED <<envVars, storageVars, pendingActions, error, turnVars,
                   applyVars, sheet, fetchCalls, lastResp>>

InitStore ==
    /\ workbook = SmallWorkbook
    /\ variant \in {"tools", "text"}
    /\ hostLive = FALSE
    /\ storedKey = "absent"
    /\ provider = "openrouter"
    /\ store = <<>>
    /\ messages = <<>>
    /\ pendingActions = <<>>
    /\ isLoading = FALSE
    /\ executingActions = FALSE
    /\ error = "none"
    /\ turnPc = "idle"
    /\ turnProvider = "none"
    /\ applyPc = "idle"
    /\ applyOps = <<>>
    /\ applyRun = EmptyRun
    /\ sheet = <<>>
    /\ fetchCalls = 0
    /\ sends = 0
    /\ applies = 0
    /\ lastResp = NoResp
    /\ lastExec = NoExec
    /\ turnStart = NoTurn
    /\ excelContext = NoContext
    /\ contextSyncs = 0

NextStore ==
    \/ \E list \in SavedLists : SetMessages(list)
    \/ clearChat

SpecStore == InitStore /\ [][NextStore]_vars

\* C18: getMessages returns at most 50 entries: with n the length of the
\* list last saved (0 after clearMessages), the last min(50, n) entries of
\* that list, in order, each as JSON gives it back.
C18_LastFiftyStored ==
    LET n == Len(messages)
        k == IF n <= 50 THEN n ELSE 50
        got == getMessages(store)
    IN /\ Len(got) <= 50
       /\ Len(got) = k
       /\ \A i \in 1..k :
            /\ got[i] = ToJson(messages[n - k + i])
            /\ got[i].id = messages[n - k + i].id

\* a list of more than 50 messages was saved: 50 are stored, the first of
\* them being the third of the list
C18_Witness ==
    /\ Len(messages) = 52
    /\ Len(getMessages(store)) = 50
    /\ getMessages(store)[1].id = messages[3].id
    /\ getMessages(store)[50].id = messages[52].id

(***************************************************************************)
(* The context read alone: a turn has started, over every used range of    *)
(* Workbooks.                                                              *)
(***************************************************************************)
InitContext ==
    /\ workbook \in Workbooks
    /\ variant \in {"tools", "text"}
    /\ hostLive \in BOOLEAN
    /\ storedKey = Btoa("k1")
    /\ provider = "openrouter"
    /\ store = <<UserMessage>>
    /\ messages = <<UserMessage>>
    /\ pendingActions = <<>>
    /\ isLoading = TRUE
    /\ executingActions = FALSE
    /\ error = "none"
    /\ turnPc = "ctx"
    /\ turnProvider = "none"
    /\ applyPc = "idle"
    /\ applyOps = <<>>
    /\ applyRun = EmptyRun
    /\ sheet = <<>>
    /\ fetchCalls = 0
    /\ sends = 1
    /\ applies = 0
    /\ lastResp = NoResp
    /\ lastExec = NoExec
    /\ turnStart = NoTurn
    /\ excelContext = NoContext
    /\ contextSyncs = 0

NextContext ==
    \/ ContextDone
    \/ ContextFail

SpecContext == InitContext /\ [][NextContext]_vars

\* the lines of one kind, in the order of the context string
LinesOf(kind) == SelectSeq(excelContext, LAMBDA l : l.kind = kind)

\* C19: the context that buildContextForLLM builds for a used range of n
\* rows and m formula cells lists rows 1..min(n, 20) followed by the marker
\* "... and n-20 more rows" exactly when n > 20, and the first min(m, 20)
\* formula cells followed by "... and m-20 more formulas" exactly when
\* m > 20.
C19_PreviewTruncated ==
    (turnPc = "llm" /\ variant = "text" /\ hostLive) =>
        LET n == workbook.rows
            m == workbook.formulas
            rowsShown == IF n <= 20 THEN n ELSE 20
            cellsShown == IF m <= 20 THEN m ELSE 20
        IN /\ LinesOf("row") = [i \in 1..rowsShown |-> Line("row", i)]
           /\ LinesOf("moreRows") =
                 IF n > 20 THEN <<Line("moreRows", n - 20)>> ELSE <<>>
           /\ LinesOf("formula") = [k \in 1..cellsShown |-> Line("formula", k)]
           /\ LinesOf("moreFormulas") =
                 IF m > 20 THEN <<Line("moreFormulas", m - 20)>> ELSE <<>>
           /\ \A i \in 1..Len(excelContext) :
                /\ excelContext[i].kind = "moreRows" =>
                     excelContext[i - 1] = Line("row", 20)
                /\ excelContext[i].kind = "moreFormulas" =>
                     excelContext[i - 1] = Line("formula", 20)

\* the context of a sheet of 25 rows and 21 formula cells: 20 rows and
\* "... and 5 more rows", 20 formulas and "... and 1 more formulas"
C19_Witness ==
    /\ turnPc = "llm" /\ variant = "text" /\ hostLive
    /\ workbook.rows = 25
    /\ workbook.formulas = 21
    /\ Len(LinesOf("row")) = 20
    /\ LinesOf("moreRows") = <<Line("moreRows", 5)>>
    /\ Len(LinesOf("formula")) = 20
    /\ LinesOf("moreFormulas") = <<Line("moreFormulas", 1)>>

(***************************************************************************)
(* The round trip through the text convention: the provider answers with   *)
(* the fenced block that encodes an operation list, for every list of up   *)
(* to MaxBlockOps operations of BlockOps.                                  *)
(***************************************************************************)
NextRoundTrip ==
    \E ops \in BlockLists :
        ResponseDone(NativeForm(turnProvider), [content |-> Encode(ops), toolCalls |-> <<>>])

SpecRoundTrip == InitNorm /\ [][NextRoundTrip]_vars

\* some string value of the list holds three backticks in a row
HasFenceInValue(ops) == \E i \in 1..Len(ops) : "F" \in Range(ops[i].value)

\* C20: a response whose text is the excel-json fenced block encoding an
\* operation list leaves exactly that list pending, for every operation
\* list, those whose string values contain backticks included.
C20_FencedBlockRoundTrip ==
    \A ops \in BlockLists :
        (lastResp.outcome = "ok" /\ lastResp.raw.content = Encode(ops)) =>
            pendingActions = ops

\* the round trip of the lists no string value of which holds three
\* backticks in a row
C20_RoundTripWithoutFence ==
    \A ops \in BlockLists :
        (lastResp.outcome = "ok" /\ lastResp.raw.content = Encode(ops)
            /\ ~HasFenceInValue(ops)) =>
            pendingActions = ops

\* a list with single backticks in a value came back whole
C20_Witness ==
    /\ lastResp.outcome = "ok"
    /\ lastResp.raw.content = Encode(<<MkValueOp(<<"w", "bt", "bt", "w">>), opBoldA1>>)
    /\ pendingActions = <<MkValueOp(<<"w", "bt", "bt", "w">>), opBoldA1>>

(***************************************************************************)
(* The executor on sortRange operations: a batch of up to MaxSortOps of    *)
(* them is pending, with every value of key and ascending.                 *)
(***************************************************************************)
SortOps == {SortOp("A1", k, a) : k \in JsValues \ {"false", "true"},
                                 a \in JsValues \ {"1", "2"}}

SortLists == UNION {[1..n -> SortOps] : n \in 1..MaxSortOps}

InitSort ==
    /\ workbook = SmallWorkbook
    /\ variant = "tools"
    /\ hostLive = TRUE
    /\ storedKey = Btoa("k1")
    /\ provider = "gemini"
    /\ messages = <<UserMessage, AssistantMessage(<<"w">>)>>
    /\ store = messages
    /\ pendingActions \in SortLists
    /\ isLoading = FALSE
    /\ executingActions = FALSE
    /\ error = "none"
    /\ turnPc = "idle"
    /\ turnProvider = "none"
    /\ applyPc = "idle"
    /\ applyOps = <<>>
    /\ applyRun = EmptyRun
    /\ sheet = <<>>
    /\ fetchCalls = 1
    /\ sends = 1
    /\ applies = 0
    /\ lastResp = ToolResponse(pendingActions)
    /\ lastExec = NoExec
    /\ turnStart = NoTurn
    /\ excelContext = NoContext
    /\ contextSyncs = 0

SpecSort == InitSort /\ [][NextExec]_vars

\* C21: when a batch of sortRange operations has been applied, the host was
\* given one sort per operation, in order; the sort of an operation without
\* key is by column 0, the sort of an operation without ascending is
\* ascending, and a sort is descending exactly when the operation's
\* ascending is false.
C21_SortDefaults ==
    (lastExec.done /\ lastExec.live /\ ~lastExec.rejected) =>
        /\ Len(sheet) = Len(lastExec.ops)
        /\ \A i \in 1..Len(sheet) :
              LET op == lastExec.ops[i]
                  call == sheet[i]
              IN /\ call.action = "sort.apply"
                 /\ call.address = op.address
                 /\ op.key = "undefined" => call.key = "0"
                 /\ op.key \in {"1", "2"} => call.key = op.key
                 /\ op.ascending = "undefined" => call.ascending
                 /\ ~call.ascending <=> op.ascending = "false"

\* a sort without key and flag and an explicitly descending sort by column 2
\* were applied
C21_Witness ==
    /\ lastExec.done /\ lastExec.live /\ ~lastExec.rejected
    /\ lastExec.ops = <<SortOp("A1", "undefined", "undefined"), SortOp("A1", "2", "false")>>
    /\ sheet = <<[action |-> "sort.apply", address |-> "A1", key |-> "0", ascending |-> TRUE],
                 [action |-> "sort.apply", address |-> "A1", key |-> "2", ascending |-> FALSE]>>

RECURSIVE IsSubsequence(_, _)
\* s is t with some elements left out, the order kept
IsSubsequence(s, t) ==
    IF s = <<>> THEN TRUE
    ELSE IF t = <<>> THEN FALSE
    ELSE IF Head(s) = Head(t) THEN IsSubsequence(Tail(s), Tail(t))
    ELSE IsSubsequence(s, Tail(t))

\* the operations of the queued host commands, in the order queued
QueuedOps(queue) == [k \in 1..Len(queue) |-> queue[k].op]

\* C22: the k-th operation that executeOperations attempts is the k-th of
\* the list (so none is attempted twice, left out or moved), the host
\* commands are queued in the order of the operations that queued them, and
\* the host carries them out in that order.
C22_ListOrder ==
    /\ applyPc = "sync" =>
         /\ Len(applyRun.attempted) = Len(applyOps)
         /\ \A k \in 1..Len(applyOps) : applyRun.attempted[k] = applyOps[k]
         /\ IsSubsequence(QueuedOps(applyRun.queue), applyOps)
    /\ (lastExec.done /\ lastExec.live /\ applies = 1) =>
         /\ IsSubsequence(sheet, lastExec.ops)
         /\ \A k \in 1..Len(lastExec.run.attempted) :
               lastExec.run.attempted[k] = lastExec.ops[k]

\* three different operations were attempted and carried out in list order
C22_Witness ==
    /\ lastExec.done /\ lastExec.live
    /\ lastExec.ops = <<opFormulaB1, opSetA1, opBoldA1>>
    /\ lastExec.run.attempted = <<opFormulaB1, opSetA1, opBoldA1>>
    /\ sheet = <<opFormulaB1, opSetA1, opBoldA1>>

\* C23: an executeOperations call on a live host goes through its loop
\* without touching the sheet, reaches context.sync() with every operation
\* attempted (also when some raised), and that one synchronization is the
\* only step that changes the sheet; after it the call is over.  Without a
\* host no call starts a batch and the sheet stays as it is.
C23_OneSyncAfterLoop ==
    [][ /\ (applyPc = "idle" /\ applyPc' # "idle") => (hostLive /\ applyPc' = "run")
        /\ (applyPc = "run" /\ applyPc' # "run") =>
              /\ applyPc' = "sync"
              /\ applyRun'.attempted = applyOps
        /\ (applyPc = "sync" /\ applyPc' # "sync") =>
              /\ applyPc' = "idle"
              /\ sheet' = sheet \o Committed(applyRun.queue)
        /\ sheet' # sheet => (applyPc = "sync" /\ applyPc' = "idle")
        /\ ~hostLive => (sheet' = sheet /\ applyPc' = "idle")
      ]_vars

\* a call in which an operation raised and the synchronization after the
\* loop carried out the others
C23_Witness ==
    /\ lastExec.done /\ lastExec.live /\ ~lastExec.rejected
    /\ lastExec.run.caught # <<>>
    /\ Len(lastExec.ops) = 3
    /\ Len(sheet) = 2

\* C24: when the context read of a turn is over and the model is awaited,
\* the read has issued exactly one context.sync().
C24_OneSyncPerContextRead ==
    turnPc = "llm" => contextSyncs = 1

\* C24 as the code has it: each Excel.run batch of the context read issues
\* one context.sync(), and a read is two batches on a live host (the
\* workbook's names, then the active sheet's used range) and none without a
\* host.
C24_OneSyncPerBatch ==
    turnPc = "llm" =>
        /\ contextSyncs = Len(ContextBatches(variant, hostLive))
        /\ contextSyncs = IF hostLive THEN 2 ELSE 0

\* the context of a live host was read, in both variants
C24_Witness ==
    /\ turnPc = "llm" /\ hostLive /\ variant = "text"
    /\ contextSyncs = 2
    /\ excelContext # NoContext

\* the response carries native tool operations and a fenced block with
\* other operations
BothSources(resp) ==
    /\ ToolOperations(resp.toolCalls) # <<>>
    /\ extractExcelActions(resp.text).ok
    /\ extractExcelActions(resp.text).hasOps
    /\ extractExcelActions(resp.text).operations # ToolOperations(resp.toolCalls)

\* C25: when a response carries native tool operations and a fenced block
\* with other operations, the pending batch is the operations of one of
\* the two, not one list followed by the other, and it is the same source
\* for every such response (the fenced block).
C25_OneSourceNoConcatenation ==
    (variant = "tools" /\ lastResp.outcome = "ok" /\ BothSources(lastResp)) =>
        LET native == ToolOperations(lastResp.toolCalls)
            block == extractExcelActions(lastResp.text).operations
        IN /\ pendingActions \in {native, block}
           /\ (native # <<>> /\ block # <<>>) =>
                 pendingActions \notin {native \o block, block \o native}
           /\ pendingActions = block

\* a response with three native operations and a block of one: the block's
\* operation is pending
C25_Witness ==
    /\ variant = "tools" /\ lastResp.outcome = "ok" /\ BothSources(lastResp)
    /\ Len(ToolOperations(lastResp.toolCalls)) = 3
    /\ pendingActions = <<opSetA1>>

\* the roles of the messages of a list
Roles(msgs) == {msgs[i].role : i \in 1..Len(msgs)}

\* C26: no message of the conversation and none of the stored history has
\* the role system; the system turn exists in the request of a chat call
\* only, where it is built from the context string read for that call.
C26_SystemTurnNotStored ==
    /\ "system" \notin Roles(messages)
    /\ "system" \notin Roles(getMessages(store))
    /\ turnPc = "llm" =>
          /\ lastResp.system.role = "system"
          /\ lastResp.system.context = excelContext

\* the second request of a conversation is in flight: its system turn was
\* built, and the conversation holds the user's and the assistant's
\* messages only
C26_Witness ==
    /\ turnPc = "llm"
    /\ sends = 2
    /\ lastResp.system = SystemTurn(excelContext)
    /\ Len(messages) = 3
    /\ Roles(messages) = {"user", "assistant"}
    /\ Roles(getMessages(store)) = {"user", "assistant"}

\* C27: if the awaited calls settle, a chat turn that has started is
\* followed by a state where no turn is in flight and isLoading is false,
\* and an apply that has started by a state where executingActions is
\* false, whichever way the calls settle.
C27_TurnAndApplyEnd ==
    /\ (turnPc # "idle") ~> (turnPc = "idle" /\ ~isLoading)
    /\ isLoading ~> ~isLoading
    /\ executingActions ~> (~executingActions /\ applyPc = "idle")

\* a turn that failed at the provider and an apply that the host rejected
\* are both over
C27_Witness ==
    /\ turnPc = "idle" /\ ~isLoading
    /\ lastResp.outcome = "providerError"
    /\ applyPc = "idle" /\ ~executingActions
    /\ lastExec.done /\ lastExec.rejected

\* C28: when handleApplyActions ends while the pending batch is not the
\* one it applied (a turn started during the apply has set a newer batch),
\* the pending batch stays as it is.
C28_ApplyKeepsNewerBatch ==
    [][(ApplyEnds /\ pendingActions # <<>> /\ pendingActions # applyOps')
          => pendingActions' = pendingActions]_vars

\* C29: while the conversation, the store and the pending batch are empty
\* (the chat was cleared, or nothing was sent yet) and no apply is running,
\* they stay empty in every step but the user's next send; so the response
\* of a turn that was in flight when the chat was cleared adds nothing.
C29_ClearedStaysEmpty ==
    [][(/\ messages = <<>> /\ getMessages(store) = <<>> /\ pendingActions = <<>>
        /\ applyPc = "idle"
        /\ sends' = sends)
          => (/\ messages' = <<>>
              /\ getMessages(store') = <<>>
              /\ pendingActions' = <<>>)]_vars

(***************************************************************************)
(* The key store under every sequence of saveApiKey and clearApiKey calls, *)
(* with the chat turns that read it.                                       *)
(***************************************************************************)
SaveKey(k) ==
    /\ storedKey' = saveApiKey(storedKey, k)
    /\ UNCHANGED <<envVars, provider, store, messages, pendingActions, error,
                   turnVars, applyVars, sheet, fetchCalls, lastResp>>

ClearKey ==
    /\ storedKey' = clearApiKey
    /\ UNCHANGED <<envVars, provider, store, messages, pendingActions, error,
                   turnVars, applyVars, sheet, fetchCalls, lastResp>>

NextKey ==
    \/ \E k \in KeyInputs : SaveKey(k)
    \/ ClearKey
    \/ SendNoKey
    \/ SendMessage
    \/ ContextFail
    \/ ContextDone
    \/ ResponseFail
    \/ \E raw \in TurnResponses : ResponseDone(NativeForm(turnProvider), raw)

SpecKey == Init /\ [][NextKey]_vars

\* hasApiKey() is true exactly when getApiKey() returns a non-empty key
KeyCheckAgrees ==
    hasApiKey(storedKey) <=> getApiKey(storedKey) \notin {"null", ""}

\* C30 as stated: the two checks agree, and no turn (each has passed the
\* hasApiKey check of sendMessage) fails in LLMService.chat for want of a
\* key.
C30_PassedCheckNeverLacksKey ==
    /\ KeyCheckAgrees
    /\ lastResp.outcome # "noKey"

\* C30 as amended: the two checks agree in every state, so chat's check
\* passes whenever hasApiKey() does; a turn fails in chat for want of a key
\* only when the key was cleared or overwritten with the empty string
\* after sendMessage made its check.
C30_ChecksAgree ==
    /\ []KeyCheckAgrees
    /\ [](hasApiKey(storedKey) => ChatStart(getApiKey(storedKey), provider).threw # "noKey")
    /\ [][(lastResp'.outcome = "noKey" /\ lastResp.outcome # "noKey")
            => (turnPc = "ctx" /\ ~hasApiKey(storedKey))]_vars

\* the empty string was saved over a key that a turn had used: the next
\* send stops at the hasApiKey check
C30_Witness ==
    /\ storedKey = ""
    /\ ~hasApiKey(storedKey) /\ getApiKey(storedKey) = "null"
    /\ lastResp.outcome = "ok"
    /\ error = "needKey"

====
